---- MODULE Spec2Model ----
(***************************************************************************)
(* Model of camera_self_filter/src/image_view.cpp: class ImageView.        *)
(*                                                                         *)
(* Two threads run callbacks of one ImageView object: the ROS spinner      *)
(* thread runs image_cb for every delivered message, the OpenCV window     *)
(* thread (cvStartWindowThread) runs mouse_cb for every mouse event.       *)
(* Every statement of the two callbacks is one action, so that every       *)
(* interleaving the mutex allows is explored.                              *)
(***************************************************************************)
EXTENDS Integers, Sequences, FiniteSets, TLC

(***************************************************************************)
(* Bounds of the model.                                                    *)
(***************************************************************************)
\* number of messages the subscription delivers
MaxMsgs == 2
\* number of mouse events the window delivers
MaxEvents == 2
\* messages delivered and mouse events counted where events never stop
MaxLiveMsgs == 1
MaxLiveEvents == 1

(***************************************************************************)
(* Program constants.                                                      *)
(***************************************************************************)
\* highgui: CV_EVENT_MOUSEMOVE, CV_EVENT_LBUTTONDOWN, CV_EVENT_RBUTTONDOWN
CV_EVENT_MOUSEMOVE == 0
CV_EVENT_LBUTTONDOWN == 1
CV_EVENT_RBUTTONDOWN == 2
\* IPL_DEPTH_8U: one unsigned byte per channel, values 0..UCHAR_MAX
UCHAR_MAX == 255
\* double alpha_value = 0.7, kept exact as the fraction AlphaNum / AlphaDen
AlphaNum == 7
AlphaDen == 10
\* the width of the integer slot of the default filename_format "frame%04i.jpg"
FormatWidth == 4
\* the channel count of the "bgra8" layout image_cb asks the bridge for
BgraChannels == 4
\* std::string::npos, the result of a find that found nothing
npos == -1

\* a null pointer to an image, to a set of planes or to a record of locals
NULL == [null |-> TRUE]
\* an empty sensor_msgs::ImageConstPtr; the messages are numbered from 1
NoMsg == 0
\* an empty std::string, an image without pixels
Empty == <<>>
\* the owner of a mutex nobody holds
Free == "free"

(***************************************************************************)
(* Strings are sequences of characters, so that find and the rendering of  *)
(* the file name are computed and not assumed.                             *)
(***************************************************************************)
bayer == <<"b", "a", "y", "e", "r">>
mono8 == <<"m", "o", "n", "o", "8">>
bgr8 == <<"b", "g", "r", "8">>
bayer_rggb8 == <<"b", "a", "y", "e", "r", "_", "r", "g", "g", "b", "8">>
raw_bayer == <<"r", "a", "w", "_", "b", "a", "y", "e", "r">>

\* the encoding tags of the messages the model delivers
Encodings == {bayer_rggb8, raw_bayer, bgr8}

\* s.find(pat): the first 0-based position where pat occurs in s, else npos
find(s, pat) ==
  LET hits == {i \in 1..(Len(s) - Len(pat) + 1) : SubSeq(s, i, i + Len(pat) - 1) = pat}
  IN IF hits = {} THEN npos
     ELSE (CHOOSE i \in hits : \A j \in hits : i <= j) - 1

\* (variant: the marker is looked for at the start of the tag only)
IsBayerPrefixOnly(enc) == find(enc, bayer) = 0
\* msg->encoding.find("bayer") != std::string::npos
IsBayer(enc) == find(enc, bayer) # npos

\* the decimal digits of a non-negative integer
RECURSIVE Digits(_)
Digits(n) == IF n < 10 THEN <<n>> ELSE Digits(n \div 10) \o <<n % 10>>

\* zero padding of a digit string to a minimal width
RECURSIVE ZeroPad(_, _)
ZeroPad(ds, w) == IF Len(ds) >= w THEN ds ELSE ZeroPad(<<0>> \o ds, w)

\* (filename_format_ % count_).str() for the default "frame%04i.jpg"
FormatFilename(n) == <<"frame">> \o ZeroPad(Digits(n), FormatWidth) \o <<".jpg">>

(***************************************************************************)
(* The compositing arithmetic of image_cb, per pixel.                      *)
(***************************************************************************)
\* (variant: alpha_value passed for both weights)
BetaNumAlphaAgain == AlphaNum
\* 1.0 - alpha_value
BetaNum == AlphaDen - AlphaNum

\* cvRound of the fraction num / den: to nearest, a tie to the even integer
cvRound(num, den) ==
  LET q == num \div den
      r == num % den
  IN IF 2 * r < den THEN q
     ELSE IF 2 * r > den THEN q + 1
     ELSE IF q % 2 = 0 THEN q ELSE q + 1

\* saturate_cast<uchar>
saturate(v) == IF v < 0 THEN 0 ELSE IF v > UCHAR_MAX THEN UCHAR_MAX ELSE v

\* one element of cvAddWeighted(src1, alpha_value, src2, 1.0 - alpha_value, 0.0, dst)
\* on IPL_DEPTH_8U images: the weighted sum in a wide type, rounded and saturated
\* (variant: the weighted sum kept in 8 bits, so that it wraps)
cvAddWeightedWrap(src1, src2) ==
  cvRound((src1 * AlphaNum + src2 * BetaNum) % (UCHAR_MAX + 1), AlphaDen)
cvAddWeighted(src1, src2) ==
  saturate(cvRound(src1 * AlphaNum + src2 * BetaNum, AlphaDen))

\* a pixel of the four-channel image is <<b, g, r, alpha>>
\* cvSplit(ipl_image, b, g, r, alpha)
cvSplit(px) == [b |-> px[1], g |-> px[2], r |-> px[3], alpha |-> px[4]]

\* cvAddWeighted(b, alpha_value, alpha, 1.0 - alpha_value, 0.0, b) and the same
\* for g and r: the destination is the colour plane, the mask plane is only read
\* (variant: the blend also overwrites the mask plane)
BlendAlsoIntoMask(planes, c) ==
  [planes EXCEPT ![c] = cvAddWeighted(planes[c], planes.alpha),
                 !.alpha = cvAddWeighted(planes[c], planes.alpha)]
Blend(planes, c) == [planes EXCEPT ![c] = cvAddWeighted(planes[c], planes.alpha)]

\* cvMerge(b, g, r, NULL, ipl_image): the three planes go to channels 0..2 of
\* the four-channel image, channel 3 keeps what it held
cvMerge(planes, px) == <<planes.b, planes.g, planes.r, px[4]>>

\* lines 128-135 for one pixel
Composite(px) == cvMerge(Blend(Blend(Blend(cvSplit(px), "b"), "g"), "r"), px)

(***************************************************************************)
(* The state of the program.                                               *)
(***************************************************************************)
VARIABLES
  encoding,      \* the messages delivered so far: encoding[m] is msg->encoding of message m
  last_msg_,     \* ImageView::last_msg_: NoMsg or a message
  img_,          \* the image img_bridge_.toIpl() returns: NULL or the bridge's buffer
  image_mutex_,  \* ImageView::image_mutex_: Free or the callback that holds it
  count_,        \* ImageView::count_
  display,       \* what the window shows: NULL or the image of the last cvShowImage
  files,         \* the files written so far, in the order of the writes
  log,           \* how many lines of each kind the console got
  pc,            \* the position of each of the two threads
  msg,           \* image_cb: its argument
  planes,        \* image_cb: the scratch images alpha, b, g, r that exist (NULL: none)
  converted,     \* image_cb: the frame fromImage put into the buffer (NULL: none yet)
  args,          \* mouse_cb: its arguments event, x, y, flags
  image,         \* mouse_cb: the local IplImage* image
  filename,      \* mouse_cb: the local std::string filename
  written,       \* mouse_cb: whether cvSaveImage wrote the file (the code drops what it returns)
  nevents,       \* the number of mouse events delivered so far
  entry,         \* per thread, the object's state when the running callback was entered
  completed,     \* the image_cb invocations that have returned, in order
  chan, mask, blended,   \* cvAddWeighted taken alone: two inputs and the result
  pixel, composited      \* the compositing taken alone: one pixel in, one out

vars == <<encoding, last_msg_, img_, image_mutex_, count_, display, files, log, pc,
          msg, planes, converted, args, image, filename, written, nevents, entry,
          completed, chan, mask, blended, pixel, composited>>

objvars == <<encoding, last_msg_, img_, image_mutex_, count_, display, files, log>>
icbvars == <<msg, planes, converted>>
mcbvars == <<args, image, filename, written>>
purevars == <<chan, mask, blended, pixel, composited>>

\* the four-channel frames a conversion to "bgra8" hands back in the model: px is
\* the value <<b, g, r, alpha>> of each of the size.width * size.height pixels
Frames == {[px |-> <<255, 0, 100, 0>>, size |-> [width |-> 2, height |-> 1]],
           [px |-> <<10, 20, 30, 255>>, size |-> [width |-> 0, height |-> 0]]}
\* the mouse events, coordinates and flags the window delivers in the model
Events == {CV_EVENT_MOUSEMOVE, CV_EVENT_LBUTTONDOWN, CV_EVENT_RBUTTONDOWN}
\* x, y and flags as they come with an event
Pointer == {[x |-> 0, y |-> 0, flags |-> 0], [x |-> 5, y |-> 3, flags |-> 1]}

\* what image_cb can change of the object, as it is when image_cb is entered
\* and the tag the message comes with
ImageEntry(enc) == [last_msg_ |-> last_msg_, img_ |-> img_, display |-> display,
                    received |-> log.received, unable |-> log.unable,
                    encoding |-> enc]
\* what mouse_cb can change of the object, as it is when mouse_cb is entered
MouseEntry == [count_ |-> count_, files |-> files,
               saved |-> log.saved, nodata |-> log.nodata]

\* ROS_INFO, ROS_WARN, ROS_ERROR: one more line of the kind
Logged(kind) == [log EXCEPT ![kind] = @ + 1]

\* the state after the constructor, ImageView::ImageView
ObjInit ==
  /\ encoding = <<>>
  /\ last_msg_ = NoMsg
  /\ img_ = NULL
  /\ image_mutex_ = Free
  /\ count_ = 0
  /\ display = NULL
  /\ files = <<>>
  /\ log = [received |-> 0, unable |-> 0, saved |-> 0, nodata |-> 0]
  /\ pc = [image_cb |-> "idle", mouse_cb |-> "idle"]
  /\ msg = NoMsg /\ planes = NULL /\ converted = NULL
  /\ args = NULL /\ image = NULL /\ filename = Empty /\ written = FALSE
  /\ nevents = 0
  /\ entry = [image_cb |-> NULL, mouse_cb |-> NULL]
  /\ completed = <<>>

PureIdle == chan = 0 /\ mask = 0 /\ blended = Empty /\ pixel = Empty /\ composited = Empty

Init == ObjInit /\ PureIdle

\* boost::lock_guard<boost::mutex> guard(image_mutex_): the constructor blocks
\* until the mutex is free, the destructor frees it when the callback returns
\* (variant: the constructor does not wait for the mutex)
lock_guard_nowait(t) == image_mutex_' = t
lock_guard(t) == image_mutex_ = Free /\ image_mutex_' = t
unlock(t) == image_mutex_' = Free

goto(t, label) == pc' = [pc EXCEPT ![t] = label]

(***************************************************************************)
(* ImageView::image_cb, one action per statement.                          *)
(***************************************************************************)
\* the subscription delivers the next message and the spinner calls image_cb(msg)
image_cb_call ==
  /\ pc.image_cb = "idle"
  /\ Len(encoding) < MaxMsgs
  /\ \E enc \in Encodings :
       /\ encoding' = Append(encoding, enc)
       /\ entry' = [entry EXCEPT !.image_cb = ImageEntry(enc)]
  /\ msg' = Len(encoding) + 1
  /\ goto("image_cb", "lock")
  /\ UNCHANGED <<last_msg_, img_, image_mutex_, count_, display, files, log,
                 planes, converted, mcbvars, nevents, completed, purevars>>

\* line 110
image_cb_lock ==
  /\ pc.image_cb = "lock"
  /\ lock_guard("image_cb")
  /\ goto("image_cb", "store")
  /\ UNCHANGED <<encoding, last_msg_, img_, count_, display, files, log,
                 icbvars, mcbvars, nevents, entry, completed, purevars>>

\* (variant: the mutex is given up right after the store)
image_cb_store_unlocks ==
  /\ pc.image_cb = "store"
  /\ last_msg_' = msg
  /\ unlock("image_cb")
  /\ goto("image_cb", "bayer")
  /\ UNCHANGED <<encoding, img_, count_, display, files, log,
                 icbvars, mcbvars, nevents, entry, completed, purevars>>
\* line 113: last_msg_ = msg
image_cb_store ==
  /\ pc.image_cb = "store"
  /\ last_msg_' = msg
  /\ goto("image_cb", "bayer")
  /\ UNCHANGED <<encoding, img_, image_mutex_, count_, display, files, log,
                 icbvars, mcbvars, nevents, entry, completed, purevars>>

\* lines 117-118: a tag that contains "bayer" is overwritten in the message
image_cb_bayer ==
  /\ pc.image_cb = "bayer"
  /\ encoding' = IF IsBayer(encoding[msg])
                 THEN [encoding EXCEPT ![msg] = mono8]
                 ELSE encoding
  /\ goto("image_cb", "fromImage")
  /\ UNCHANGED <<last_msg_, img_, image_mutex_, count_, display, files, log,
                 icbvars, mcbvars, nevents, entry, completed, purevars>>

\* (variant: a failed conversion puts the former message back into last_msg_)
image_cb_fromImage_restores ==
  /\ pc.image_cb = "fromImage"
  /\ \/ \E f \in Frames :
          /\ img_' = [src |-> msg, px |-> f.px, size |-> f.size,
                      nChannels |-> BgraChannels]
          /\ converted' = f
          /\ last_msg_' = last_msg_
          /\ goto("image_cb", "info")
     \/ /\ UNCHANGED <<img_, converted>>
        /\ last_msg_' = entry.image_cb.last_msg_
        /\ goto("image_cb", "error")
  /\ UNCHANGED <<encoding, image_mutex_, count_, display, files, log,
                 msg, planes, mcbvars, nevents, entry, completed, purevars>>
\* line 120: img_bridge_.fromImage(*msg, "bgra8") either fills the bridge's
\* buffer with the four-channel image of the message and returns true, or
\* returns false and leaves the buffer alone
image_cb_fromImage ==
  /\ pc.image_cb = "fromImage"
  /\ \/ \E f \in Frames :
          /\ img_' = [src |-> msg, px |-> f.px, size |-> f.size,
                      nChannels |-> BgraChannels]
          /\ converted' = f
          /\ goto("image_cb", "info")
     \/ /\ UNCHANGED <<img_, converted>>
        /\ goto("image_cb", "error")
  /\ UNCHANGED <<encoding, last_msg_, image_mutex_, count_, display, files, log,
                 msg, planes, mcbvars, nevents, entry, completed, purevars>>

\* lines 121-122: ipl_image = img_bridge_.toIpl(); ROS_INFO("received image ...")
image_cb_info ==
  /\ pc.image_cb = "info"
  /\ log' = Logged("received")
  /\ goto("image_cb", "create_alpha")
  /\ UNCHANGED <<encoding, last_msg_, img_, image_mutex_, count_, display, files,
                 icbvars, mcbvars, nevents, entry, completed, purevars>>

\* the scratch images that exist
Allocated == IF planes = NULL THEN {} ELSE DOMAIN planes

\* lines 124-127: cvCreateImage(cvGetSize(ipl_image), IPL_DEPTH_8U, 1), once per
\* scratch image; the content of a new image is not set: the four of one
\* invocation come with one arbitrary fill, all zeros or all ones
image_cb_create(c, next) ==
  /\ pc.image_cb = "create_" \o c
  /\ \E v \in {0, UCHAR_MAX} :
       /\ \A k \in Allocated : planes[k] = v
       /\ planes' = [k \in Allocated \cup {c} |-> v]
  /\ goto("image_cb", next)
  /\ UNCHANGED <<objvars, msg, converted, mcbvars, nevents, entry, completed, purevars>>

image_cb_create_alpha == image_cb_create("alpha", "create_b")
image_cb_create_b == image_cb_create("b", "create_g")
image_cb_create_g == image_cb_create("g", "create_r")
image_cb_create_r == image_cb_create("r", "split")

\* line 128
image_cb_split ==
  /\ pc.image_cb = "split"
  /\ planes' = cvSplit(img_.px)
  /\ goto("image_cb", "blend_b")
  /\ UNCHANGED <<objvars, msg, converted, mcbvars, nevents, entry, completed, purevars>>

\* lines 131-133
image_cb_blend(c, next) ==
  /\ pc.image_cb = "blend_" \o c
  /\ planes' = Blend(planes, c)
  /\ goto("image_cb", next)
  /\ UNCHANGED <<objvars, msg, converted, mcbvars, nevents, entry, completed, purevars>>

image_cb_blend_b == image_cb_blend("b", "blend_g")
image_cb_blend_g == image_cb_blend("g", "blend_r")
image_cb_blend_r == image_cb_blend("r", "merge")

\* line 135: the merge writes into the bridge's buffer
image_cb_merge ==
  /\ pc.image_cb = "merge"
  /\ img_' = [img_ EXCEPT !.px = cvMerge(planes, img_.px)]
  /\ goto("image_cb", "show")
  /\ UNCHANGED <<encoding, last_msg_, image_mutex_, count_, display, files, log,
                 icbvars, mcbvars, nevents, entry, completed, purevars>>

\* (variant: one of the scratch planes is shown)
image_cb_show_plane ==
  /\ pc.image_cb = "show"
  /\ display' = [img_ EXCEPT !.px = <<planes.b>>, !.nChannels = 1]
  /\ goto("image_cb", "release_alpha")
  /\ UNCHANGED <<encoding, last_msg_, img_, image_mutex_, count_, files, log,
                 icbvars, mcbvars, nevents, entry, completed, purevars>>
\* line 137: cvShowImage copies the image to the window
image_cb_show ==
  /\ pc.image_cb = "show"
  /\ display' = img_
  /\ goto("image_cb", "release_alpha")
  /\ UNCHANGED <<encoding, last_msg_, img_, image_mutex_, count_, files, log,
                 icbvars, mcbvars, nevents, entry, completed, purevars>>

\* lines 138-141: cvReleaseImage, once per scratch image
\* (variant: the release of r is missing)
image_cb_release_leaks(c, next) ==
  /\ pc.image_cb = "release_" \o c
  /\ planes' = IF c = "r" THEN planes
               ELSE [k \in Allocated \ {c} |-> planes[k]]
  /\ goto("image_cb", next)
  /\ UNCHANGED <<objvars, msg, converted, mcbvars, nevents, entry, completed, purevars>>
image_cb_release(c, next) ==
  /\ pc.image_cb = "release_" \o c
  /\ planes' = IF Allocated = {c} THEN NULL
               ELSE [k \in Allocated \ {c} |-> planes[k]]
  /\ goto("image_cb", next)
  /\ UNCHANGED <<objvars, msg, converted, mcbvars, nevents, entry, completed, purevars>>

image_cb_release_alpha == image_cb_release("alpha", "release_b")
image_cb_release_b == image_cb_release("b", "release_g")
image_cb_release_g == image_cb_release("g", "release_r")
image_cb_release_r == image_cb_release("r", "return")

\* line 144: ROS_ERROR("Unable to convert ...")
image_cb_error ==
  /\ pc.image_cb = "error"
  /\ log' = Logged("unable")
  /\ goto("image_cb", "return")
  /\ UNCHANGED <<encoding, last_msg_, img_, image_mutex_, count_, display, files,
                 icbvars, mcbvars, nevents, entry, completed, purevars>>

\* line 145: the guard's destructor frees the mutex
image_cb_return ==
  /\ pc.image_cb = "return"
  /\ unlock("image_cb")
  /\ completed' = Append(completed, [msg |-> msg, converted |-> converted,
                                     img_ |-> img_])
  /\ msg' = NoMsg /\ converted' = NULL
  /\ entry' = [entry EXCEPT !.image_cb = NULL]
  /\ goto("image_cb", "idle")
  /\ UNCHANGED <<encoding, last_msg_, img_, count_, display, files, log,
                 planes, mcbvars, nevents, purevars>>

(***************************************************************************)
(* ImageView::mouse_cb, one action per statement.                          *)
(***************************************************************************)
\* what toIpl() returns when the bridge holds an image: a pointer to its buffer
BridgeBuffer == [null |-> FALSE]

\* the window thread delivers a mouse event and calls mouse_cb(event, x, y, flags, this)
mouse_cb_call ==
  /\ pc.mouse_cb = "idle"
  /\ nevents < MaxEvents
  /\ nevents' = nevents + 1
  /\ \E event \in Events, p \in Pointer :
       args' = [event |-> event, x |-> p.x, y |-> p.y, flags |-> p.flags]
  /\ entry' = [entry EXCEPT !.mouse_cb = MouseEntry]
  /\ goto("mouse_cb", "check")
  /\ UNCHANGED <<objvars, icbvars, image, filename, written, completed, purevars>>

\* (variant: only mouse moves are filtered out)
mouse_cb_check_moves ==
  /\ pc.mouse_cb = "check"
  /\ IF args.event = CV_EVENT_MOUSEMOVE
     THEN /\ goto("mouse_cb", "idle")
          /\ args' = NULL
          /\ entry' = [entry EXCEPT !.mouse_cb = NULL]
     ELSE /\ goto("mouse_cb", "lock")
          /\ UNCHANGED <<args, entry>>
  /\ UNCHANGED <<objvars, icbvars, image, filename, written, nevents, completed, purevars>>
\* lines 149-150: any event but a left button press returns at once
mouse_cb_check ==
  /\ pc.mouse_cb = "check"
  /\ IF args.event # CV_EVENT_LBUTTONDOWN
     THEN /\ goto("mouse_cb", "idle")
          /\ args' = NULL
          /\ entry' = [entry EXCEPT !.mouse_cb = NULL]
     ELSE /\ goto("mouse_cb", "lock")
          /\ UNCHANGED <<args, entry>>
  /\ UNCHANGED <<objvars, icbvars, image, filename, written, nevents, completed, purevars>>

\* (variant: mouse_cb enters without waiting for the mutex)
mouse_cb_lock_nowait ==
  /\ pc.mouse_cb = "lock"
  /\ lock_guard_nowait("mouse_cb")
  /\ goto("mouse_cb", "toIpl")
  /\ UNCHANGED <<encoding, last_msg_, img_, count_, display, files, log,
                 icbvars, mcbvars, nevents, entry, completed, purevars>>
\* line 153
mouse_cb_lock ==
  /\ pc.mouse_cb = "lock"
  /\ lock_guard("mouse_cb")
  /\ goto("mouse_cb", "toIpl")
  /\ UNCHANGED <<encoding, last_msg_, img_, count_, display, files, log,
                 icbvars, mcbvars, nevents, entry, completed, purevars>>

\* line 155: IplImage *image = iv->img_bridge_.toIpl()
mouse_cb_toIpl ==
  /\ pc.mouse_cb = "toIpl"
  /\ image' = IF img_ = NULL THEN NULL ELSE BridgeBuffer
  /\ goto("mouse_cb", "if")
  /\ UNCHANGED <<objvars, icbvars, args, filename, written, nevents, entry,
                 completed, purevars>>

\* (variant: the test of the pointer inverted)
mouse_cb_if_inverted ==
  /\ pc.mouse_cb = "if"
  /\ IF image = NULL THEN goto("mouse_cb", "format") ELSE goto("mouse_cb", "warn")
  /\ UNCHANGED <<objvars, icbvars, mcbvars, nevents, entry, completed, purevars>>
\* line 156: if (image)
mouse_cb_if ==
  /\ pc.mouse_cb = "if"
  /\ IF image # NULL THEN goto("mouse_cb", "format") ELSE goto("mouse_cb", "warn")
  /\ UNCHANGED <<objvars, icbvars, mcbvars, nevents, entry, completed, purevars>>

\* line 157: filename = (filename_format_ % count_).str()
mouse_cb_format ==
  /\ pc.mouse_cb = "format"
  /\ filename' = FormatFilename(count_)
  /\ goto("mouse_cb", "save")
  /\ UNCHANGED <<objvars, icbvars, args, image, written, nevents, entry,
                 completed, purevars>>

\* (variant: only the part of the frame left of and above the click is written)
mouse_cb_save_region ==
  /\ pc.mouse_cb = "save"
  /\ \E ok \in BOOLEAN :
       /\ written' = ok
       /\ files' = IF ok
                   THEN Append(files, [name |-> filename,
                                       image |-> [img_ EXCEPT !.size = [width |-> args.x,
                                                                        height |-> args.y]]])
                   ELSE files
  /\ goto("mouse_cb", "info")
  /\ UNCHANGED <<encoding, last_msg_, img_, image_mutex_, count_, display, log,
                 icbvars, args, image, filename, nevents, entry, completed, purevars>>
\* line 158: cvSaveImage(filename.c_str(), image) writes what image points to,
\* or fails (a path that cannot be written, a full disk) and returns 0; the
\* code does not look at what it returns
mouse_cb_save ==
  /\ pc.mouse_cb = "save"
  /\ \E ok \in BOOLEAN :
       /\ written' = ok
       /\ files' = IF ok THEN Append(files, [name |-> filename, image |-> img_])
                         ELSE files
  /\ goto("mouse_cb", "info")
  /\ UNCHANGED <<encoding, last_msg_, img_, image_mutex_, count_, display, log,
                 icbvars, args, image, filename, nevents, entry, completed, purevars>>

\* line 159: ROS_INFO("Saved image %s", ...)
mouse_cb_info ==
  /\ pc.mouse_cb = "info"
  /\ log' = Logged("saved")
  /\ goto("mouse_cb", "inc")
  /\ UNCHANGED <<encoding, last_msg_, img_, image_mutex_, count_, display, files,
                 icbvars, mcbvars, nevents, entry, completed, purevars>>

\* line 160: iv->count_++
mouse_cb_inc ==
  /\ pc.mouse_cb = "inc"
  /\ count_' = count_ + 1
  /\ goto("mouse_cb", "return")
  /\ UNCHANGED <<encoding, last_msg_, img_, image_mutex_, display, files, log,
                 icbvars, mcbvars, nevents, entry, completed, purevars>>

\* line 162: ROS_WARN("Couldn't save image, no data!")
mouse_cb_warn ==
  /\ pc.mouse_cb = "warn"
  /\ log' = Logged("nodata")
  /\ goto("mouse_cb", "return")
  /\ UNCHANGED <<encoding, last_msg_, img_, image_mutex_, count_, display, files,
                 icbvars, mcbvars, nevents, entry, completed, purevars>>

\* (variant: mouse_cb returns with the mutex still locked)
mouse_cb_return_locked ==
  /\ pc.mouse_cb = "return"
  /\ args' = NULL /\ image' = NULL /\ filename' = Empty /\ written' = FALSE
  /\ entry' = [entry EXCEPT !.mouse_cb = NULL]
  /\ goto("mouse_cb", "idle")
  /\ UNCHANGED <<encoding, last_msg_, img_, image_mutex_, count_, display, files,
                 log, icbvars, nevents, completed, purevars>>
\* line 164: the guard's destructor frees the mutex
mouse_cb_return ==
  /\ pc.mouse_cb = "return"
  /\ unlock("mouse_cb")
  /\ args' = NULL /\ image' = NULL /\ filename' = Empty /\ written' = FALSE
  /\ entry' = [entry EXCEPT !.mouse_cb = NULL]
  /\ goto("mouse_cb", "idle")
  /\ UNCHANGED <<encoding, last_msg_, img_, count_, display, files, log,
                 icbvars, nevents, completed, purevars>>

(***************************************************************************)
(* The program: the two threads, interleaved statement by statement.       *)
(***************************************************************************)
image_cb ==
  \/ image_cb_call \/ image_cb_lock \/ image_cb_store \/ image_cb_bayer
  \/ image_cb_fromImage \/ image_cb_info
  \/ image_cb_create_alpha \/ image_cb_create_b \/ image_cb_create_g
  \/ image_cb_create_r \/ image_cb_split
  \/ image_cb_blend_b \/ image_cb_blend_g \/ image_cb_blend_r \/ image_cb_merge
  \/ image_cb_show
  \/ image_cb_release_alpha \/ image_cb_release_b \/ image_cb_release_g
  \/ image_cb_release_r \/ image_cb_error \/ image_cb_return

mouse_cb ==
  \/ mouse_cb_call \/ mouse_cb_check \/ mouse_cb_lock \/ mouse_cb_toIpl
  \/ mouse_cb_if \/ mouse_cb_format \/ mouse_cb_save \/ mouse_cb_info
  \/ mouse_cb_inc \/ mouse_cb_warn \/ mouse_cb_return

Next == image_cb \/ mouse_cb

Spec == Init /\ [][Next]_vars

(***************************************************************************)
(* The same program with a window that never stops delivering events      *)
(* (lines 95 and 147: OpenCV calls mouse_cb for every mouse event of the   *)
(* window).  Past MaxLiveEvents the events are no longer counted, a left   *)
(* click is then delivered only while nothing has been converted, so that  *)
(* the files and count_ stay bounded.  Each thread that can take a step of *)
(* a callback eventually takes one; nothing obliges the subscription or    *)
(* the window to deliver.                                                  *)
(***************************************************************************)
\* one of the first MaxLiveMsgs messages
image_cb_call_counted == Len(encoding) < MaxLiveMsgs /\ image_cb_call

\* one of the first MaxLiveEvents mouse events
mouse_cb_call_counted == nevents < MaxLiveEvents /\ mouse_cb_call

\* a mouse event past the counted ones
mouse_cb_call_uncounted ==
  /\ pc.mouse_cb = "idle"
  /\ nevents = MaxLiveEvents
  /\ \E event \in Events, p \in Pointer :
       /\ event = CV_EVENT_LBUTTONDOWN => img_ = NULL
       /\ args' = [event |-> event, x |-> p.x, y |-> p.y, flags |-> p.flags]
  /\ entry' = [entry EXCEPT !.mouse_cb = MouseEntry]
  /\ goto("mouse_cb", "check")
  /\ UNCHANGED <<objvars, icbvars, image, filename, written, nevents, completed,
                 purevars>>

\* line 162, while the warnings are counted
mouse_cb_warn_counted == log.nodata < MaxLiveEvents /\ mouse_cb_warn

\* line 162, past the counted warnings
mouse_cb_warn_uncounted ==
  /\ pc.mouse_cb = "warn"
  /\ log.nodata >= MaxLiveEvents
  /\ goto("mouse_cb", "return")
  /\ UNCHANGED <<objvars, icbvars, mcbvars, nevents, entry, completed, purevars>>

\* the steps of image_cb once the spinner has called it (lines 110-145)
image_cb_run ==
  \/ image_cb_lock \/ image_cb_store \/ image_cb_bayer
  \/ image_cb_fromImage \/ image_cb_info
  \/ image_cb_create_alpha \/ image_cb_create_b \/ image_cb_create_g
  \/ image_cb_create_r \/ image_cb_split
  \/ image_cb_blend_b \/ image_cb_blend_g \/ image_cb_blend_r \/ image_cb_merge
  \/ image_cb_show
  \/ image_cb_release_alpha \/ image_cb_release_b \/ image_cb_release_g
  \/ image_cb_release_r \/ image_cb_error \/ image_cb_return

\* the steps of mouse_cb once the window has called it (lines 149-164)
mouse_cb_run ==
  \/ mouse_cb_check \/ mouse_cb_lock \/ mouse_cb_toIpl
  \/ mouse_cb_if \/ mouse_cb_format \/ mouse_cb_save \/ mouse_cb_info
  \/ mouse_cb_inc \/ mouse_cb_warn_counted \/ mouse_cb_warn_uncounted
  \/ mouse_cb_return

LiveNext ==
  \/ image_cb_call_counted \/ image_cb_run
  \/ mouse_cb_call_counted \/ mouse_cb_call_uncounted \/ mouse_cb_run

FairSpec ==
  Init /\ [][LiveNext]_vars /\ WF_vars(image_cb_run) /\ WF_vars(mouse_cb_run)

(***************************************************************************)
(* cvAddWeighted alone (lines 131-133), on every pair of 8-bit values.     *)
(***************************************************************************)
BlendInit ==
  /\ ObjInit
  /\ chan \in 0..UCHAR_MAX /\ mask \in 0..UCHAR_MAX /\ blended = Empty
  /\ pixel = Empty /\ composited = Empty

\* cvAddWeighted(c, alpha_value, alpha, 1.0 - alpha_value, 0.0, c) on one element
add_weighted ==
  /\ blended = Empty
  /\ blended' = <<cvAddWeighted(chan, mask)>>
  /\ UNCHANGED <<objvars, pc, icbvars, mcbvars, nevents, entry, completed,
                 chan, mask, pixel, composited>>

BlendSpec == BlendInit /\ [][add_weighted]_vars

(***************************************************************************)
(* The compositing alone (lines 128-135), on four-channel pixels.          *)
(***************************************************************************)
\* the channel values these pixels are made of
Levels == {0, 1, 128, 255}

CompositeInit ==
  /\ ObjInit
  /\ chan = 0 /\ mask = 0 /\ blended = Empty
  /\ pixel \in {<<b, g, r, a>> : b \in Levels, g \in Levels, r \in Levels, a \in Levels}
  /\ composited = Empty

\* split, three blends, merge
composite ==
  /\ composited = Empty
  /\ composited' = Composite(pixel)
  /\ UNCHANGED <<objvars, pc, icbvars, mcbvars, nevents, entry, completed,
                 chan, mask, blended, pixel>>

CompositeSpec == CompositeInit /\ [][composite]_vars

(***************************************************************************)
(* Definitions the properties share.                                       *)
(***************************************************************************)
\* image_cb is past its lock_guard and has not returned
InImageCb == pc.image_cb \notin {"idle", "lock"}
\* mouse_cb is past its lock_guard and has not returned
InMouseCb == pc.mouse_cb \notin {"idle", "check", "lock"}

\* the image_cb invocations that returned after a successful conversion
Succeeded == {i \in DOMAIN completed : completed[i].converted # NULL}

\* the finished result of the latest of them: the converted pixel, composited
LatestFrame ==
  IF Succeeded = {} THEN NULL
  ELSE LET i == CHOOSE k \in Succeeded : \A j \in Succeeded : j <= k
       IN [src |-> completed[i].msg, px |-> Composite(completed[i].converted.px),
           size |-> completed[i].converted.size,
           nChannels |-> BgraChannels]

\* the absolute value
Abs(n) == IF n < 0 THEN 0 - n ELSE n

(***************************************************************************)
(* C1. Counter sequencing: the i-th file that is written carries the       *)
(* counter value i-1 in its name (no gap, no repeat, whatever attempts     *)
(* failed in between) and count_ never decreases.                          *)
(***************************************************************************)
C1_CounterSequencing ==
  [][ /\ count_' >= count_
      /\ \A i \in DOMAIN files' : files'[i].name = FormatFilename(i - 1) ]_vars

(***************************************************************************)
(* C2. Conversion failure is side-effect free: when image_cb is about to   *)
(* return after a failed conversion, one error line was logged and the     *)
(* window, last_msg_ and the image a click would save are what they were   *)
(* when image_cb was entered.                                              *)
(***************************************************************************)
C2_ConversionFailureSideEffectFree ==
  (pc.image_cb = "return" /\ converted = NULL) =>
     /\ log.unable = entry.image_cb.unable + 1
     /\ display = entry.image_cb.display
     /\ img_ = entry.image_cb.img_
     /\ last_msg_ = entry.image_cb.last_msg_

(***************************************************************************)
(* C3. No-frame save: a left click handled while no conversion has ever    *)
(* succeeded writes no file, logs one warning and no success, and leaves   *)
(* count_ as it was.                                                       *)
(***************************************************************************)
C3_NoFrameSave ==
  (pc.mouse_cb = "return" /\ Succeeded = {}) =>
     /\ files = entry.mouse_cb.files
     /\ count_ = entry.mouse_cb.count_
     /\ log.nodata = entry.mouse_cb.nodata + 1
     /\ log.saved = entry.mouse_cb.saved

\* a click on a window whose only frame so far failed to convert
C3_Witness ==
  /\ pc.mouse_cb = "return"
  /\ Succeeded = {}
  /\ Len(completed) > 0
  /\ log.nodata = entry.mouse_cb.nodata + 1

(***************************************************************************)
(* C4. The counter advances only after a successful write: a mouse_cb      *)
(* whose file write did not succeed returns with count_ as it found it     *)
(* and without a success line in the log.                                  *)
(***************************************************************************)
C4_CounterOnlyAfterWrite ==
  (pc.mouse_cb = "return" /\ ~written) =>
     /\ count_ = entry.mouse_cb.count_
     /\ log.saved = entry.mouse_cb.saved

(***************************************************************************)
(* C5. Lock scope, as claimed: image_mutex_ is not held by image_cb while  *)
(* it converts, splits, blends, merges or displays, nor by mouse_cb while  *)
(* it writes the file.                                                     *)
(***************************************************************************)
C5_LockOnlyAroundReference ==
  /\ ~(image_mutex_ = "image_cb" /\
       pc.image_cb \in {"fromImage", "split", "blend_b", "blend_g", "blend_r",
                        "merge", "show"})
  /\ ~(image_mutex_ = "mouse_cb" /\ pc.mouse_cb = "save")

(***************************************************************************)
(* C5, amended. image_mutex_ is held by a callback exactly from its        *)
(* lock_guard until it returns: by image_cb through the store of the       *)
(* reference and the conversion, compositing and display, by mouse_cb      *)
(* through the read of the reference and the write of the file.            *)
(***************************************************************************)
C5_LockHeldForWholeCallback ==
  /\ (image_mutex_ = "image_cb") <=> InImageCb
  /\ (image_mutex_ = "mouse_cb") <=> InMouseCb

\* mouse_cb writes the file under the lock while image_cb waits for it
C5_Witness ==
  /\ image_mutex_ = "mouse_cb"
  /\ pc.mouse_cb = "save"
  /\ pc.image_cb = "lock"

(***************************************************************************)
(* C6. No torn read: while mouse_cb is between its read of the shared      *)
(* frame and its return, no image_cb is between its lock and its return,   *)
(* and the frame mouse_cb reads is none or the finished result of the      *)
(* latest image_cb that converted; every file holds such a result.         *)
(***************************************************************************)
C6_NoTornRead ==
  /\ InMouseCb =>
       /\ ~InImageCb
       /\ img_ = LatestFrame
  /\ \A i \in DOMAIN files :
       \E k \in Succeeded :
         /\ files[i].image.src = completed[k].msg
         /\ files[i].image.px = Composite(completed[k].converted.px)

\* a click saves a frame while the next frame is being delivered
C6_Witness ==
  /\ pc.mouse_cb = "info"
  /\ written
  /\ pc.image_cb = "lock"
  /\ files[Len(files)].image = LatestFrame

(***************************************************************************)
(* C7. Bayer normalization ordering: from the moment conversion is about   *)
(* to be attempted, the tag of the message is mono8 if the tag it came     *)
(* with contains "bayer" and is the tag it came with otherwise; mouse_cb   *)
(* never runs its body while last_msg_ carries a tag that contains         *)
(* "bayer"; a tag that does not contain the marker is never changed.       *)
(***************************************************************************)
HasMarker(tag) ==
  \E i \in 1..Len(tag) : \E j \in i..Len(tag) : SubSeq(tag, i, j) = bayer

C7_BayerNormalizedFirst ==
  /\ pc.image_cb \notin {"idle", "lock", "store", "bayer"} =>
       encoding[msg] = IF HasMarker(entry.image_cb.encoding)
                       THEN mono8
                       ELSE entry.image_cb.encoding
  /\ (InMouseCb /\ last_msg_ # NoMsg) => ~HasMarker(encoding[last_msg_])
  /\ (pc.image_cb # "idle" /\ encoding[msg] # mono8) =>
       encoding[msg] = entry.image_cb.encoding

\* a tag with the marker in its middle has been rewritten before the conversion
C7_Witness ==
  /\ pc.image_cb = "fromImage"
  /\ entry.image_cb.encoding = raw_bayer
  /\ encoding[msg] = mono8

(***************************************************************************)
(* C8. Blend formula with saturation safety: for all 8-bit c and mask the  *)
(* blended value is an 8-bit value at most one half away from              *)
(* 0.7*c + 0.3*mask.                                                       *)
(***************************************************************************)
C8_BlendNearestInRange ==
  blended # Empty =>
     /\ blended[1] \in 0..255
     /\ 2 * Abs(10 * blended[1] - (7 * chan + 3 * mask)) <= 10

\* the two extremes of the claim
C8_Witness ==
  /\ blended # Empty
  /\ \/ chan = 255 /\ mask = 0
     \/ chan = 0 /\ mask = 255

(***************************************************************************)
(* C9. Channel independence: permuting the three colour slots of a pixel,  *)
(* compositing and permuting back gives what compositing the pixel gives,  *)
(* and so does blending the three channels in any other order.             *)
(***************************************************************************)
SlotPermutations == {p \in [1..3 -> 1..3] : \A i, j \in 1..3 : p[i] = p[j] => i = j}
Permute(p, px) == <<px[p[1]], px[p[2]], px[p[3]], px[4]>>
Inverse(p) == [i \in 1..3 |-> CHOOSE j \in 1..3 : p[j] = i]
Slot == <<"b", "g", "r">>
BlendInOrder(p, px) ==
  cvMerge(Blend(Blend(Blend(cvSplit(px), Slot[p[1]]), Slot[p[2]]), Slot[p[3]]), px)

C9_ChannelIndependence ==
  composited # Empty =>
     \A p \in SlotPermutations :
       /\ Permute(Inverse(p), Composite(Permute(p, pixel))) = composited
       /\ BlendInOrder(p, pixel) = composited

\* three different colour values and a mask that changes all of them
C9_Witness ==
  /\ composited # Empty
  /\ pixel = <<0, 128, 255, 1>>
  /\ composited # pixel

(***************************************************************************)
(* C10. Idempotent mask: a channel value equal to the mask value is        *)
(* blended to itself, for all values 0..255.                               *)
(***************************************************************************)
C10_IdempotentMask ==
  (blended # Empty /\ chan = mask) => blended[1] = chan

\* the brightest such channel
C10_Witness ==
  /\ blended # Empty
  /\ chan = mask
  /\ chan = 255

(***************************************************************************)
(* C11. Output shape, as claimed: the frame image_cb has handed to the     *)
(* window, and every frame a click has saved, has three channels and the   *)
(* width and height of the converted frame.                                *)
(***************************************************************************)
\* image_cb has shown the frame it converted and has not returned
HasShown ==
  /\ pc.image_cb \in {"release_alpha", "release_b", "release_g", "release_r", "return"}
  /\ converted # NULL

C12_ScratchScoped ==
  /\ Cardinality(Allocated) <= 4
  /\ pc.image_cb \in {"idle", "lock", "error", "return"} => Allocated = {}

\* a second frame has been composited and its scratch images are gone
C12_Witness ==
  /\ pc.image_cb = "return"
  /\ converted # NULL
  /\ Succeeded # {}
  /\ Allocated = {}

(***************************************************************************)
(* C13. Saved content: the file a click has just written holds the image   *)
(* that is in the bridge's buffer while mouse_cb holds the lock, which is  *)
(* the composited output of the latest image_cb whose conversion           *)
(* succeeded, in its full width and height, under the name mouse_cb        *)
(* rendered.                                                               *)
(***************************************************************************)
C13_SavedContent ==
  (pc.mouse_cb \in {"info", "inc", "return"} /\ written) =>
     LET f == files[Len(files)]
         k == CHOOSE i \in Succeeded : \A j \in Succeeded : j <= i
     IN /\ Succeeded # {}
        /\ f.name = filename
        /\ f.image = img_
        /\ f.image.src = completed[k].msg
        /\ f.image.px = Composite(completed[k].converted.px)
        /\ f.image.size = completed[k].converted.size

\* a click after a good frame and then a frame that failed to convert
C13_Witness ==
  /\ pc.mouse_cb = "info"
  /\ written
  /\ Len(completed) = 2
  /\ completed[1].converted # NULL
  /\ completed[2].converted = NULL
  /\ files[Len(files)].image.src = 1
  /\ last_msg_ = 2

(***************************************************************************)
(* C14. Click filtering: mouse_cb goes on to its lock_guard if and only    *)
(* if the event is a left button press; for any other event it returns     *)
(* at once, without the mutex and with count_, last_msg_, the bridge's     *)
(* image, the files and the log as they were; after a left button press    *)
(* the file name is the rendering of count_ and count_ goes up by one,     *)
(* whatever x, y and flags are.                                            *)
(***************************************************************************)
C14_ClickFiltering ==
  [][ /\ (pc.mouse_cb = "check" /\ pc'.mouse_cb # "check") =>
           IF args.event = CV_EVENT_LBUTTONDOWN
           THEN pc'.mouse_cb = "lock"
           ELSE /\ pc'.mouse_cb = "idle"
                /\ UNCHANGED <<image_mutex_, count_, last_msg_, img_, files, log>>
      /\ pc'.mouse_cb \notin {"idle", "check"} => args'.event = CV_EVENT_LBUTTONDOWN
      /\ pc'.mouse_cb \in {"save", "info", "inc"} =>
           filename' = FormatFilename(entry'.mouse_cb.count_)
      /\ (pc.mouse_cb = "inc" /\ pc'.mouse_cb # "inc") =>
           count_' = entry.mouse_cb.count_ + 1 ]_vars

\* a second left click, away from the origin and with a flag set, has saved
C14_Witness ==
  /\ pc.mouse_cb = "return"
  /\ args.event = CV_EVENT_LBUTTONDOWN /\ args.x = 5 /\ args.y = 3 /\ args.flags = 1
  /\ filename = FormatFilename(1)
  /\ count_ = 2

(***************************************************************************)
(* C15. The stored reference tracks the latest delivery: whenever image_cb *)
(* is not running, last_msg_ is the message of the image_cb that returned  *)
(* last, converted or not, and is empty if none has returned; no step of   *)
(* mouse_cb changes last_msg_.                                             *)
(***************************************************************************)
LastDelivered ==
  IF completed = <<>> THEN NoMsg ELSE completed[Len(completed)].msg

C15_StoredReferenceTracksDelivery ==
  [][ /\ pc.image_cb = "idle" => last_msg_ = LastDelivered
      /\ pc'.image_cb = "idle" => last_msg_' = LastDelivered'
      /\ pc'.mouse_cb # pc.mouse_cb => last_msg_' = last_msg_ ]_vars

\* the latest of two frames failed to convert and is the stored one
C15_Witness ==
  /\ pc.image_cb = "idle"
  /\ Len(completed) = 2
  /\ completed[1].converted # NULL
  /\ completed[2].converted = NULL
  /\ last_msg_ = 2

(***************************************************************************)
(* C16. Lock release and progress.  As stated: a callback that is not      *)
(* running does not hold image_mutex_, whichever path it returned by; the  *)
(* two callbacks are never both past their lock_guard; whenever a callback *)
(* is in progress some step of a callback can be taken; and under weak     *)
(* fairness of the two threads every invocation that has started           *)
(* eventually returns.                                                     *)
(***************************************************************************)
LockReleased ==
  /\ pc.image_cb = "idle" => image_mutex_ # "image_cb"
  /\ pc.mouse_cb = "idle" => image_mutex_ # "mouse_cb"
  /\ (pc.image_cb = "idle" /\ pc.mouse_cb \in {"idle", "check"}) => image_mutex_ = Free

OneHolder ==
  /\ ~(InImageCb /\ InMouseCb)
  /\ InImageCb <=> image_mutex_ = "image_cb"
  /\ InMouseCb <=> image_mutex_ = "mouse_cb"

NoDeadlock ==
  (pc.image_cb # "idle" \/ pc.mouse_cb # "idle") => ENABLED (image_cb_run \/ mouse_cb_run)

EveryInvocationReturns ==
  /\ (pc.image_cb # "idle") ~> (pc.image_cb = "idle")
  /\ (pc.mouse_cb # "idle") ~> (pc.mouse_cb = "idle")

C16_ProgressUnderWeakFairness ==
  /\ [](LockReleased /\ OneHolder /\ NoDeadlock)
  /\ EveryInvocationReturns

(***************************************************************************)
(* C16, amended.  The safety part as above; every invocation that has      *)
(* started eventually returns provided a callback waiting at its           *)
(* lock_guard gets the mutex when it is free again and again (strong       *)
(* fairness of the two acquisitions): under weak fairness alone image_cb   *)
(* can wait for ever at line 110 while mouse_cb is called over and over.   *)
(***************************************************************************)
C16_LockReleaseAndProgress ==
  /\ [](LockReleased /\ OneHolder /\ NoDeadlock)
  /\ (SF_vars(image_cb_lock) /\ SF_vars(mouse_cb_lock)) => EveryInvocationReturns

\* image_cb waits at its lock_guard while an uncounted click holds the mutex
C16_Witness ==
  /\ pc.image_cb = "lock"
  /\ pc.mouse_cb = "warn"
  /\ image_mutex_ = "mouse_cb"
  /\ nevents = MaxLiveEvents
  /\ log.nodata = MaxLiveEvents

====
